---- MODULE Spec2Model ----
(***************************************************************************)
(* A model of the SensorArduino analysis scripts:                          *)
(*   estatistica.py    percentage statistics of Temp, UmidadeAr, USolo     *)
(*   gerar_figuras.py  five chart renderers writing into graficos/         *)
(* Floating-point values are modelled as exact rationals (n/d), with the   *)
(* IEEE special values nan and inf and Python's None as kinds of their own *)
(* and a square root kept symbolically until it is rounded.                *)
(***************************************************************************)
EXTENDS Integers, Sequences, FiniteSets, TLC

VARIABLES
    \* ---- the input, DADOS.CSV ----
    arquivo,        \* whether DADOS.CSV can be read
    cabecalho,      \* the set of column names of its header line
    linhas,         \* its data rows: a sequence of records column -> token
    data_ok,        \* whether pd.to_datetime can parse Data + ' ' + Hora
    \* ---- the running script ----
    pc,             \* the statement the script is at
    df,             \* estatistica.py: df ; gerar_figuras.py: dados
    df_numeric,     \* estatistica.py: df_numeric
    idx,            \* estatistica.py: the loop's position in variaveis
    estatisticas_percentuais,   \* estatistica.py: var -> statistic -> value
    df_resultado,   \* estatistica.py: the rounded table
    stdout,         \* what has been printed, in order
    \* ---- the file system ----
    dir_graficos,   \* whether graficos/ exists
    arquivos,       \* file name -> the run that last wrote it (0: absent)
    csv_saida,      \* estatisticas_percentuais.csv as written, or <<>>
    \* ---- gerar_figuras.py: bookkeeping of the renderers ----
    execucao,       \* the number of the current run of the script
    ambiente,       \* renderer -> the outcome the input and environment give it
    chamados,       \* the renderers invoked in this run, in order
    rotulos,        \* plot_outliers: the hue label of each row, or <<>>
    antes           \* the files present when the previous run ended

vars == << arquivo, cabecalho, linhas, data_ok, pc, df, df_numeric, idx,
           estatisticas_percentuais, df_resultado, stdout, dir_graficos,
           arquivos, csv_saida, execucao, ambiente, chamados, rotulos, antes >>

(***************************************************************************)
(* Bounds of the model.                                                    *)
(***************************************************************************)
\* The most data rows of DADOS.CSV.
MaxLinhas == 4

\* The most runs of gerar_figuras.py in a row, and the most data rows then.
MaxExecucoes == 2

MaxLinhasReexecucao == 1

(***************************************************************************)
(* Values.  k is the kind:                                                 *)
(*   "num"   the rational n/d (d > 0, reduced)                             *)
(*   "root"  sign(n) * 100^e * sqrt(|n|/d)                                 *)
(*   "nan"   a missing value (NaN)      "inf"  sign(n) * infinity          *)
(*   "none"  Python's None              "str"  the text s                  *)
(***************************************************************************)
Val(k, n, d, e, s) == [k |-> k, n |-> n, d |-> d, e |-> e, s |-> s]

Abs(x) == IF x < 0 THEN -x ELSE x

Sgn(x) == IF x < 0 THEN -1 ELSE IF x > 0 THEN 1 ELSE 0

RECURSIVE Gcd(_, _)
Gcd(a, b) == IF b = 0 THEN a ELSE Gcd(b, a % b)

\* The rational n/d in lowest terms with a positive denominator (d # 0).
Num(n, d) ==
    LET g == Gcd(Abs(n), Abs(d))
        s == IF d < 0 THEN -1 ELSE 1
    IN  Val("num", s * (n \div g), Abs(d) \div g, 0, <<>>)

NaN == Val("nan", 0, 1, 0, <<>>)

None == Val("none", 0, 1, 0, <<>>)

Inf(sign) == Val("inf", sign, 1, 0, <<>>)

Str(t) == Val("str", 0, 1, 0, t)

\* sign(n) * 100^e * sqrt(|n|/d)
Root(n, d, e) ==
    LET g == Gcd(Abs(n), Abs(d))
    IN  Val("root", n \div g, d \div g, e, <<>>)

IsNum(x) == x.k = "num"

IsNaN(x) == x.k = "nan"

\* ---- exact arithmetic on "num" values ----
RAdd(a, b) ==
    LET l == (a.d \div Gcd(a.d, b.d)) * b.d
    IN  Num(a.n * (l \div a.d) + b.n * (l \div b.d), l)

RNeg(a) == Num(-a.n, a.d)

RSub(a, b) == RAdd(a, RNeg(b))

RMul(a, b) ==
    LET g1 == Gcd(Abs(a.n), b.d)
        g2 == Gcd(Abs(b.n), a.d)
    IN  Num((a.n \div g1) * (b.n \div g2), (a.d \div g2) * (b.d \div g1))

\* a / b for b # 0
RDiv(a, b) == RMul(a, Num(b.d, b.n))

RLess(a, b) == a.n * b.d < b.n * a.d

(***************************************************************************)
(* The CSV's cells.  A token is the cell's text, a tuple of characters.    *)
(***************************************************************************)
\* estatistica.py: the variables of interest, in the loop's order.
variaveis == <<"Temp", "UmidadeAr", "USolo">>

Nucleo == {variaveis[i] : i \in 1..3}

Digitos == {"0", "1", "2", "3", "4", "5", "6", "7", "8", "9"}

DigitVal(c) ==
    CASE c = "0" -> 0 [] c = "1" -> 1 [] c = "2" -> 2 [] c = "3" -> 3
      [] c = "4" -> 4 [] c = "5" -> 5 [] c = "6" -> 6 [] c = "7" -> 7
      [] c = "8" -> 8 [] c = "9" -> 9

RECURSIVE DigitsVal(_)
DigitsVal(t) ==
    IF t = <<>> THEN 0
    ELSE 10 * DigitsVal(SubSeq(t, 1, Len(t) - 1)) + DigitVal(t[Len(t)])

RECURSIVE Pow10(_)
Pow10(k) == IF k = 0 THEN 1 ELSE 10 * Pow10(k - 1)

\* The number a token spells ([-]digits[.digits]), or NaN when it spells none.
ParseFloat(t) ==
    LET neg  == Len(t) > 0 /\ t[1] = "-"
        body == IF neg THEN Tail(t) ELSE t
        dots == {i \in 1..Len(body) : body[i] = "."}
        p    == IF dots = {} THEN Len(body) + 1
                ELSE CHOOSE i \in dots : \A j \in dots : i <= j
        ip   == SubSeq(body, 1, p - 1)
        fp   == SubSeq(body, p + 1, Len(body))
        ok   == /\ Len(ip) + Len(fp) > 0
                /\ \A i \in 1..Len(ip) : ip[i] \in Digitos
                /\ \A i \in 1..Len(fp) : fp[i] \in Digitos
    IN  IF ok
        THEN Num((IF neg THEN -1 ELSE 1)
                     * (DigitsVal(ip) * Pow10(Len(fp)) + DigitsVal(fp)),
                 Pow10(Len(fp)))
        ELSE NaN

\* pd.read_csv's column: numbers when every cell is empty or spells a number,
\* otherwise the texts as they are; an empty cell is NaN either way.
ReadColumn(tokens) ==
    LET numeric == \A i \in 1..Len(tokens) :
                       tokens[i] = <<>> \/ IsNum(ParseFloat(tokens[i]))
    IN  [i \in 1..Len(tokens) |->
            IF tokens[i] = <<>> THEN NaN
            ELSE IF numeric THEN ParseFloat(tokens[i])
            ELSE Str(tokens[i])]

\* pd.read_csv('DADOS.CSV'): the header's columns, the three variables' cells.
ReadCsv(header, rows) ==
    [colunas |-> header,
     celulas |-> [c \in Nucleo \cap header |->
                     ReadColumn([i \in 1..Len(rows) |-> rows[i][c]])]]

\* A variant: errors='ignore', which leaves a text it cannot parse as it is.
ToNumericCellIgnore(c) ==
    IF c.k = "str" /\ IsNum(ParseFloat(c.s)) THEN ParseFloat(c.s) ELSE c

\* pd.to_numeric(errors='coerce') on one cell.
ToNumericCell(c) == IF c.k = "str" THEN ParseFloat(c.s) ELSE c

\* pd.to_numeric(errors='coerce') on one column.
ToNumeric(col) == [i \in 1..Len(col) |-> ToNumericCell(col[i])]

\* df.apply(pd.to_numeric, errors='coerce')
ApplyToNumeric(d) ==
    [colunas |-> d.colunas,
     celulas |-> [c \in DOMAIN d.celulas |-> ToNumeric(d.celulas[c])]]

(***************************************************************************)
(* Series statistics (pandas skips missing values).                        *)
(***************************************************************************)
Validos(col) == SelectSeq(col, IsNum)

RECURSIVE Soma(_)
Soma(s) == IF s = <<>> THEN Num(0, 1) ELSE RAdd(Head(s), Soma(Tail(s)))

Ordenado(col) == SortSeq(Validos(col), RLess)

Mean(col) ==
    LET v == Validos(col)
    IN  IF v = <<>> THEN NaN ELSE RDiv(Soma(v), Num(Len(v), 1))

Min(col) == LET s == Ordenado(col) IN IF s = <<>> THEN NaN ELSE s[1]

Max(col) == LET s == Ordenado(col) IN IF s = <<>> THEN NaN ELSE s[Len(s)]

\* A variant: the lower middle value, with no averaging of the two middles.
MedianInferior(col) ==
    LET s == Ordenado(col)
    IN  IF Len(s) = 0 THEN NaN ELSE s[(Len(s) + 1) \div 2]

Median(col) ==
    LET s == Ordenado(col)
        n == Len(s)
    IN  IF n = 0 THEN NaN
        ELSE IF n % 2 = 1 THEN s[(n + 1) \div 2]
        ELSE RDiv(RAdd(s[n \div 2], s[n \div 2 + 1]), Num(2, 1))

\* The sample variance (ddof = 1).
Var(col) ==
    LET v  == Validos(col)
        m  == Mean(col)
        sq == [i \in 1..Len(v) |-> RMul(RSub(v[i], m), RSub(v[i], m))]
    IN  IF Len(v) < 2 THEN NaN ELSE RDiv(Soma(sq), Num(Len(v) - 1, 1))

\* ---- integer square roots, by the digit-by-digit method ----
RECURSIVE Base100(_)
Base100(n) == IF n = 0 THEN <<>> ELSE Append(Base100(n \div 100), n % 100)

\* pr = <<root so far, remainder>>; pairs: the base-100 digits still to take.
RECURSIVE SqrtDigits(_, _)
SqrtDigits(pr, pairs) ==
    IF pairs = <<>> THEN pr
    ELSE LET cur == pr[2] * 100 + Head(pairs)
             x   == CHOOSE y \in 0..9 :
                        /\ (20 * pr[1] + y) * y <= cur
                        /\ y = 9 \/ (20 * pr[1] + y + 1) * (y + 1) > cur
         IN  SqrtDigits(<<10 * pr[1] + x, cur - (20 * pr[1] + x) * x>>,
                        Tail(pairs))

Isqrt(n) == SqrtDigits(<<0, 0>>, Base100(n))[1]

IsSquare(n) == Isqrt(n) * Isqrt(n) = n

\* The square root of a "num" >= 0: a "num" when rational, else a "root".
Sqrt(x) ==
    IF IsSquare(x.n) /\ IsSquare(x.d) THEN Num(Isqrt(x.n), Isqrt(x.d))
    ELSE Root(x.n, x.d, 0)

\* The sample standard deviation (ddof = 1).
Std(col) == LET v == Var(col) IN IF IsNaN(v) THEN NaN ELSE Sqrt(v)

(***************************************************************************)
(* numpy float64 arithmetic, as far as the scripts use it.                 *)
(***************************************************************************)
FSub(x, y) == IF IsNaN(x) \/ IsNaN(y) THEN NaN ELSE RSub(x, y)

\* x / y for y a number or NaN: a zero divisor gives nan or inf, never an error.
FDiv(x, y) ==
    IF IsNaN(x) \/ IsNaN(y) THEN NaN
    ELSE IF y.n = 0 THEN (IF x.n = 0 THEN NaN ELSE Inf(Sgn(x.n)))
    ELSE IF x.k = "root"
         THEN LET r == RDiv(RDiv(Num(Abs(x.n), x.d), y), y)
              IN  Root(Sgn(x.n) * Sgn(y.n) * r.n, r.d, x.e)
    ELSE RDiv(x, y)

\* x * 100
FMul100(x) ==
    IF x.k = "num" THEN RMul(x, Num(100, 1))
    ELSE IF x.k = "root" THEN Root(x.n, x.d, x.e + 1)
    ELSE x

\* bool(x) of a numpy float: only zero is falsy; NaN is truthy.
Truthy(x) == ~(x.k = "num" /\ x.n = 0)

\* N / D (D > 0) rounded to the nearest integer, a tie to the even one.
RoundHalfEven(N, D) ==
    LET q == N \div D
        r == N % D
    IN  IF 2 * r < D THEN q
        ELSE IF 2 * r > D THEN q + 1
        ELSE IF q % 2 = 0 THEN q ELSE q + 1

\* m base-100 digits of the fraction rem/d
RECURSIVE FracPairs(_, _, _)
FracPairs(rem, d, m) ==
    IF m = 0 THEN <<>>
    ELSE <<(rem * 100) \div d>> \o FracPairs((rem * 100) % d, d, m - 1)

\* 100^m * sqrt(n/d) rounded to the nearest integer (the root is irrational).
RoundRoot(n, d, m) ==
    LET pairs == Base100((4 * n) \div d) \o FracPairs((4 * n) % d, d, 2 * m)
    IN  (SqrtDigits(<<0, 0>>, pairs)[1] + 1) \div 2

\* A variant: truncation to two decimals instead of rounding.
Round2Truncado(x) ==
    IF x.k = "num" THEN Num((x.n * 100) \div x.d, 100)
    ELSE IF x.k = "root"
         THEN Num(Sgn(x.n) * RoundRoot(Abs(x.n), x.d, x.e + 1), 100)
    ELSE x

\* round(x, 2): the nearest multiple of 1/100; nan and inf stay as they are.
Round2(x) ==
    IF x.k = "num" THEN Num(RoundHalfEven(x.n * 100, x.d), 100)
    ELSE IF x.k = "root"
         THEN Num(Sgn(x.n) * RoundRoot(Abs(x.n), x.d, x.e + 1), 100)
    ELSE x

\* One printed line: its text and the value formatted into it.
Mensagem(msg, arg) == [msg |-> msg, arg |-> arg]

(***************************************************************************)
(* The inputs: DADOS.CSV's header and rows.                                *)
(***************************************************************************)
Linha(temp, umidade, usolo) ==
    [Temp |-> temp, UmidadeAr |-> umidade, USolo |-> usolo]

\* The rows a file is made of: the spec's two sample readings (L1, L2), and
\* rows with a status word, a negative reading, a decimal reading and an
\* empty cell.
L1 == Linha(<<"2", "0">>, <<"5", "0">>, <<"3", "0">>)

L2 == Linha(<<"3", "0">>, <<"7", "0">>, <<"5", "0">>)

L3 == Linha(<<"S", "I", "M">>, <<"1", "0", "0">>, <<"-", "3", "0">>)

L4 == Linha(<<"2", "0", ".", "1", "2", "5">>, <<>>, <<"N", "A", "O">>)

L5 == Linha(<<"3", "0">>, <<"N", "A", "O">>, <<"-", "5", "0">>)

\* The rows estatistica.py's input is drawn from, and gerar_figuras.py's.
LinhasEst == {L1, L2, L3, L4}

LinhasFig == {L1, L3, L4, L5}

Tabelas(possiveis, max) == UNION {[1..n -> possiveis] : n \in 0..max}

TodasColunas == {"Data", "Hora"} \cup Nucleo

\* A complete header, or one that lacks a single column.
Cabecalhos == {TodasColunas} \cup {TodasColunas \ {c} : c \in TodasColunas}

(***************************************************************************)
(* estatistica.py                                                          *)
(***************************************************************************)
Estatisticas ==
    {"Intervalo (%)", "Desvio Padrao (%)", "Variancia (%)",
     "Mediana (valor)", "Mediana (%)"}

Percentuais == Estatisticas \ {"Mediana (valor)"}

\* A variant: the percentage without the guard on the mean.
PercentualSemGuarda(x, media) == FMul100(FDiv(x, media))

\* (x / media) * 100 if media else None
Percentual(x, media) ==
    IF Truthy(media) THEN FMul100(FDiv(x, media)) ELSE None

\* Lines 26-40: the statistics of one variable's column.
EstatisticasDe(col) ==
    LET media     == Mean(col)
        min_val   == Min(col)
        max_val   == Max(col)
        intervalo == FSub(max_val, min_val)
        desvio    == Std(col)
        variancia == Var(col)
        mediana   == Median(col)
    IN  [s \in Estatisticas |->
            CASE s = "Intervalo (%)"     -> Percentual(intervalo, media)
              [] s = "Desvio Padrao (%)" -> Percentual(desvio, media)
              [] s = "Variancia (%)"     -> Percentual(variancia, media)
              [] s = "Mediana (valor)"   -> mediana
              [] s = "Mediana (%)"       -> Percentual(mediana, media)]

\* pd.DataFrame(...) of the nested dict: a None cell becomes NaN.
DataFrameCell(x) == IF x.k = "none" THEN NaN ELSE x

\* pd.DataFrame(estatisticas_percentuais).T.round(2)
Resultado(ep) ==
    [v \in DOMAIN ep |-> [s \in Estatisticas |-> Round2(DataFrameCell(ep[v][s]))]]

EstVars == << data_ok, dir_graficos, arquivos, execucao, ambiente, chamados,
              rotulos, antes >>

InitEst ==
    /\ arquivo \in BOOLEAN
    /\ cabecalho \in Cabecalhos
    /\ linhas \in Tabelas(LinhasEst, MaxLinhas)
    /\ data_ok = TRUE
    /\ pc = "read_csv"
    /\ df = <<>>
    /\ df_numeric = <<>>
    /\ idx = 1
    /\ estatisticas_percentuais = <<>>
    /\ df_resultado = <<>>
    /\ stdout = <<>>
    /\ dir_graficos = FALSE
    /\ arquivos = <<>>
    /\ csv_saida = <<>>
    /\ execucao = 1
    /\ ambiente = <<>>
    /\ chamados = <<>>
    /\ rotulos = <<>>
    /\ antes = {}

\* Line 14: df = pd.read_csv("DADOS.CSV"); a missing file is an uncaught error.
EstReadCsv ==
    /\ pc = "read_csv"
    /\ IF arquivo
       THEN df' = ReadCsv(cabecalho, linhas) /\ pc' = "to_numeric"
       ELSE df' = df /\ pc' = "erro"
    /\ UNCHANGED << arquivo, cabecalho, linhas, df_numeric, idx,
                    estatisticas_percentuais, df_resultado, stdout, csv_saida >>
    /\ UNCHANGED EstVars

\* Line 17: df_numeric = df.apply(pd.to_numeric, errors='coerce')
EstToNumeric ==
    /\ pc = "to_numeric"
    /\ df_numeric' = ApplyToNumeric(df)
    /\ pc' = "loop"
    /\ UNCHANGED << arquivo, cabecalho, linhas, df, idx,
                    estatisticas_percentuais, df_resultado, stdout, csv_saida >>
    /\ UNCHANGED EstVars

\* Lines 25-40: one iteration of the loop; a missing column is a KeyError.
EstLoop ==
    /\ pc = "loop"
    /\ LET var == variaveis[idx]
       IN  IF var \in DOMAIN df_numeric.celulas
           THEN /\ estatisticas_percentuais' =
                       [v \in DOMAIN estatisticas_percentuais \cup {var} |->
                           IF v = var
                           THEN EstatisticasDe(df_numeric.celulas[var])
                           ELSE estatisticas_percentuais[v]]
                /\ idx' = idx + 1
                /\ pc' = IF idx = Len(variaveis) THEN "resultado" ELSE "loop"
           ELSE /\ pc' = "erro"
                /\ UNCHANGED << estatisticas_percentuais, idx >>
    /\ UNCHANGED << arquivo, cabecalho, linhas, df, df_numeric, df_resultado,
                    stdout, csv_saida >>
    /\ UNCHANGED EstVars

\* Line 43: df_resultado = pd.DataFrame(estatisticas_percentuais).T.round(2)
EstResultado ==
    /\ pc = "resultado"
    /\ df_resultado' = Resultado(estatisticas_percentuais)
    /\ pc' = "print"
    /\ UNCHANGED << arquivo, cabecalho, linhas, df, df_numeric, idx,
                    estatisticas_percentuais, stdout, csv_saida >>
    /\ UNCHANGED EstVars

\* Lines 45-46: the title and the table go to standard output.
EstImprimir ==
    /\ pc = "print"
    /\ stdout' = stdout \o << Mensagem("Estatisticas globais", ""),
                              Mensagem("df_resultado", df_resultado) >>
    /\ pc' = "to_csv"
    /\ UNCHANGED << arquivo, cabecalho, linhas, df, df_numeric, idx,
                    estatisticas_percentuais, df_resultado, csv_saida >>
    /\ UNCHANGED EstVars

\* Line 49: df_resultado.to_csv("estatisticas_percentuais.csv")
EstToCsv ==
    /\ pc = "to_csv"
    /\ csv_saida' = df_resultado
    /\ pc' = "fim"
    /\ UNCHANGED << arquivo, cabecalho, linhas, df, df_numeric, idx,
                    estatisticas_percentuais, df_resultado, stdout >>
    /\ UNCHANGED EstVars

NextEst ==
    \/ EstReadCsv
    \/ EstToNumeric
    \/ EstLoop
    \/ EstResultado
    \/ EstImprimir
    \/ EstToCsv

SpecEstatistica == InitEst /\ [][NextEst]_vars

(***************************************************************************)
(* gerar_figuras.py                                                        *)
(***************************************************************************)
required_columns == <<"UmidadeAr", "Temp", "USolo">>

\* plot_graficos_temporais: the keys of its dict variaveis, in order.
variaveis_temporais == <<"UmidadeAr", "Temp", "USolo">>

\* str.lower() on the three column names.
Lower(col) ==
    CASE col = "UmidadeAr" -> "umidadear"
      [] col = "Temp"      -> "temp"
      [] col = "USolo"     -> "usolo"

\* f'graficos/temporal_{col.lower()}.png'
NomeTemporal(col) ==
    CASE Lower(col) = "umidadear" -> "graficos/temporal_umidadear.png"
      [] Lower(col) = "temp"      -> "graficos/temporal_temp.png"
      [] Lower(col) = "usolo"     -> "graficos/temporal_usolo.png"
      [] OTHER                    -> "graficos/temporal_?.png"

Renderizadores == <<"temporais", "boxplot", "correlacao", "outliers", "pca">>

\* The file the four single-image renderers save.
NomeDe(r) ==
    CASE r = "boxplot"    -> "graficos/boxplot_variaveis.png"
      [] r = "correlacao" -> "graficos/matriz_correlacao.png"
      [] r = "outliers"   -> "graficos/outliers_umidade.png"
      [] r = "pca"        -> "graficos/pca_ambiental.png"

\* The message each renderer's except clause prints.
ErroDe(r) ==
    CASE r = "temporais"  -> "Erro ao gerar graficos temporais"
      [] r = "boxplot"    -> "Erro ao gerar boxplot"
      [] r = "correlacao" -> "Erro ao gerar matriz de correlacao"
      [] r = "outliers"   -> "Erro ao gerar grafico de outliers"
      [] r = "pca"        -> "Erro ao gerar PCA"

\* Lines 176-183: the names the final report lists.
ListaRelatorio ==
    << "temporal_combinado.png", "temporal_umidadear.png", "temporal_temp.png",
       "temporal_usolo.png", "boxplot_variaveis.png", "matriz_correlacao.png",
       "outliers_umidade.png", "pca_ambiental.png" >>

\* Series.quantile(qn/4), by linear interpolation over the values present.
Quantile(col, qn) ==
    LET s   == Ordenado(col)
        n   == Len(s)
        pos == (n - 1) * qn
        k   == pos \div 4
        r   == pos % 4
    IN  IF n = 0 THEN NaN
        ELSE IF r = 0 THEN s[k + 1]
        ELSE RAdd(s[k + 1], RMul(Num(r, 4), RSub(s[k + 2], s[k + 1])))

\* a * x for a number a
FScale(a, x) == IF IsNaN(x) THEN NaN ELSE RMul(a, x)

FAdd(x, y) == IF IsNaN(x) \/ IsNaN(y) THEN NaN ELSE RAdd(x, y)

\* x < y on floats: false when either is NaN.
FLess(x, y) == IsNum(x) /\ IsNum(y) /\ RLess(x, y)

\* Lines 107-111.
LimiteInf(col) ==
    LET Q1  == Quantile(col, 1)
        Q3  == Quantile(col, 3)
        IQR == FSub(Q3, Q1)
    IN  FSub(Q1, FScale(Num(3, 2), IQR))

LimiteSup(col) ==
    LET Q1  == Quantile(col, 1)
        Q3  == Quantile(col, 3)
        IQR == FSub(Q3, Q1)
    IN  FAdd(Q3, FScale(Num(3, 2), IQR))

FLessEq(x, y) == IsNum(x) /\ IsNum(y) /\ ~RLess(y, x)

\* A variant: the fences themselves count as outliers.
RotuloInclusivo(x, limite_inf, limite_sup) ==
    IF FLessEq(x, limite_inf) \/ FLessEq(limite_sup, x) THEN "Outlier" ELSE "Normal"

\* Line 116: 'Outlier' if x < limite_inf or x > limite_sup else 'Normal'
Rotulo(x, limite_inf, limite_sup) ==
    IF FLess(x, limite_inf) \/ FLess(limite_sup, x) THEN "Outlier" ELSE "Normal"

\* Lines 115-116: df['UmidadeAr'].apply(lambda x: ...)
Rotulos(col) ==
    LET limite_inf == LimiteInf(col)
        limite_sup == LimiteSup(col)
    IN  [i \in 1..Len(col) |-> Rotulo(col[i], limite_inf, limite_sup)]

\* A column read as text (dtype object): quantile and comparison raise on it.
Textual(col) == \E i \in 1..Len(col) : col[i].k = "str"

\* The outcomes a renderer can have.  temporais: 0 is success, k in 1..3 an
\* exception while the k-th variable is drawn (before its savefig), 4 an
\* exception after the loop.  outliers: an exception before the labels are
\* computed (forced when the column is text) or after.  The others: success
\* or an exception before savefig returns.
Resultados(r, dados) ==
    IF r = "temporais" THEN 0..4
    ELSE IF r = "outliers"
         THEN IF Textual(dados.celulas["UmidadeAr"]) THEN {"falha_antes"}
              ELSE {"ok", "falha_antes", "falha_depois"}
    ELSE {"ok", "falha"}

\* plt.savefig(nome): the file is (over)written by this run.
Savefig(fs, nomes, run) ==
    [f \in DOMAIN fs \cup nomes |-> IF f \in nomes THEN run ELSE fs[f]]

FigVars == << df_numeric, idx, estatisticas_percentuais, df_resultado,
              csv_saida >>

Entrada == << arquivo, cabecalho, linhas, data_ok >>

InitFig ==
    /\ arquivo \in BOOLEAN
    /\ IF arquivo
       THEN /\ cabecalho \in Cabecalhos
            /\ linhas \in Tabelas(LinhasFig, MaxLinhas)
            /\ data_ok \in BOOLEAN
       ELSE /\ cabecalho = {}
            /\ linhas = <<>>
            /\ data_ok = FALSE
    /\ pc = "carregar"
    /\ df = <<>>
    /\ df_numeric = <<>>
    /\ idx = 1
    /\ estatisticas_percentuais = <<>>
    /\ df_resultado = <<>>
    /\ stdout = <<>>
    /\ dir_graficos \in BOOLEAN
    /\ arquivos = <<>>
    /\ csv_saida = <<>>
    /\ execucao = 1
    /\ ambiente = <<>>
    /\ chamados = <<>>
    /\ rotulos = <<>>
    /\ antes = {}

\* Lines 18-23: read the file and parse the timestamps; any exception is
\* printed and the script exits.
FigCarregar ==
    /\ pc = "carregar"
    /\ IF ~arquivo
       THEN /\ stdout' = Append(stdout, Mensagem("Erro ao carregar dados", "DADOS.CSV"))
            /\ pc' = "saiu"
            /\ df' = df
       ELSE IF "Data" \notin cabecalho
       THEN /\ stdout' = Append(stdout, Mensagem("Erro ao carregar dados", "Data"))
            /\ pc' = "saiu"
            /\ df' = df
       ELSE IF "Hora" \notin cabecalho
       THEN /\ stdout' = Append(stdout, Mensagem("Erro ao carregar dados", "Hora"))
            /\ pc' = "saiu"
            /\ df' = df
       ELSE IF ~data_ok
       THEN /\ stdout' = Append(stdout, Mensagem("Erro ao carregar dados", "to_datetime"))
            /\ pc' = "saiu"
            /\ df' = df
       ELSE /\ df' = [ReadCsv(cabecalho, linhas) EXCEPT
                         !.colunas = @ \cup {"Data_Hora"}]
            /\ pc' = "colunas"
            /\ stdout' = stdout
    /\ UNCHANGED << Entrada, dir_graficos, arquivos, execucao, ambiente,
                    chamados, rotulos, antes >>
    /\ UNCHANGED FigVars

\* A variant: the loop over required_columns stops short of the last one.
FaltanteSemUltima(colunas) ==
    IF required_columns[1] \notin colunas THEN required_columns[1]
    ELSE IF required_columns[2] \notin colunas THEN required_columns[2]
    ELSE ""

\* The first required column the table lacks, or "" when it has them all.
Faltante(colunas) ==
    IF \A i \in 1..Len(required_columns) : required_columns[i] \in colunas
    THEN ""
    ELSE required_columns[CHOOSE i \in 1..Len(required_columns) :
             /\ required_columns[i] \notin colunas
             /\ \A j \in 1..(i - 1) : required_columns[j] \in colunas]

\* Lines 26-30.
FigColunas ==
    /\ pc = "colunas"
    /\ IF Faltante(df.colunas) = ""
       THEN pc' = "makedirs" /\ stdout' = stdout
       ELSE /\ stdout' = Append(stdout,
                   Mensagem("Erro: Coluna nao encontrada", Faltante(df.colunas)))
            /\ pc' = "saiu"
    /\ UNCHANGED << Entrada, df, dir_graficos, arquivos, execucao, ambiente,
                    chamados, rotulos, antes >>
    /\ UNCHANGED FigVars

\* A variant: the directory is not created.
MakedirsSemCriar(existe) == existe

\* os.makedirs('graficos', exist_ok=True)
Makedirs(existe) == TRUE

\* Line 165.
FigMakedirs ==
    /\ pc = "makedirs"
    /\ dir_graficos' = Makedirs(dir_graficos)
    /\ pc' = "temporais"
    /\ UNCHANGED << Entrada, df, stdout, arquivos, execucao, ambiente,
                    chamados, rotulos, antes >>
    /\ UNCHANGED FigVars

\* A variant: the combined figure is saved before the loop over variables.
SalvosCombinadoPrimeiro(r, o) ==
    IF r = "temporais"
    THEN {NomeTemporal(variaveis_temporais[i]) :
              i \in {j \in 1..3 : o = 0 \/ j < o}}
         \cup {"graficos/temporal_combinado.png"}
    ELSE IF o = "ok" THEN {NomeDe(r)} ELSE {}

\* The files a renderer has saved when it returns with outcome o.
Salvos(r, o) ==
    IF r = "temporais"
    THEN {NomeTemporal(variaveis_temporais[i]) :
              i \in {j \in 1..3 : o = 0 \/ j < o}}
         \cup (IF o = 0 THEN {"graficos/temporal_combinado.png"} ELSE {})
    ELSE IF o = "ok" THEN {NomeDe(r)} ELSE {}

Sucesso(r, o) == IF r = "temporais" THEN o = 0 ELSE o = "ok"

\* A variant: a renderer without its try/except, whose exception ends the script.
DepoisSemCaptura(r, o) ==
    IF ~Sucesso(r, o) THEN "saiu"
    ELSE CASE r = "temporais"  -> "boxplot"
           [] r = "boxplot"    -> "correlacao"
           [] r = "correlacao" -> "outliers"
           [] r = "outliers"   -> "pca"
           [] r = "pca"        -> "relatorio"

\* Where the script goes on after renderer r ended with outcome o: every
\* renderer catches its own exceptions, so to the next statement.
Depois(r, o) ==
    CASE r = "temporais"  -> "boxplot"
      [] r = "boxplot"    -> "correlacao"
      [] r = "correlacao" -> "outliers"
      [] r = "outliers"   -> "pca"
      [] r = "pca"        -> "relatorio"

\* What the body of a renderer's try block does under outcome o: the files
\* saved (savefig needs the directory) and, on an exception, the message.
Corpo(r, o) ==
    /\ arquivos' = IF dir_graficos
                   THEN Savefig(arquivos, Salvos(r, o), execucao)
                   ELSE arquivos
    /\ stdout' = IF Sucesso(r, o) /\ dir_graficos THEN stdout
                 ELSE Append(stdout, Mensagem(ErroDe(r), r))

\* Lines 168-172: one call renderer(dados).  The outcome is the one the
\* input and the environment give this renderer: chosen at its first call,
\* the same in a later run, which finds both unchanged.
Renderizar(r) ==
    /\ \E o \in Resultados(r, df) :
        /\ r \in DOMAIN ambiente => o = ambiente[r]
        /\ ambiente' = [x \in DOMAIN ambiente \cup {r} |->
                           IF x = r THEN o ELSE ambiente[x]]
        /\ Corpo(r, o)
        /\ pc' = Depois(r, o)
        /\ rotulos' = IF r = "outliers" /\ o \in {"ok", "falha_depois"}
                      THEN Rotulos(df.celulas["UmidadeAr"])
                      ELSE rotulos
    /\ chamados' = Append(chamados, r)
    /\ UNCHANGED << Entrada, df, dir_graficos, execucao, antes >>
    /\ UNCHANGED FigVars

FigTemporais ==
    /\ pc = "temporais"
    /\ Renderizar("temporais")

FigBoxplot ==
    /\ pc = "boxplot"
    /\ Renderizar("boxplot")

FigCorrelacao ==
    /\ pc = "correlacao"
    /\ Renderizar("correlacao")

FigOutliers ==
    /\ pc = "outliers"
    /\ Renderizar("outliers")

FigPca ==
    /\ pc = "pca"
    /\ Renderizar("pca")

\* Lines 174-183: the completion message and the list of files.
FigRelatorio ==
    /\ pc = "relatorio"
    /\ stdout' = stdout
                 \o << Mensagem("Processamento concluido", "graficos/"),
                       Mensagem("Arquivos gerados:", "") >>
                 \o [i \in 1..Len(ListaRelatorio) |->
                        Mensagem("-", ListaRelatorio[i])]
    /\ pc' = "fim"
    /\ UNCHANGED << Entrada, df, dir_graficos, arquivos, execucao, ambiente,
                    chamados, rotulos, antes >>
    /\ UNCHANGED FigVars

NextFig ==
    \/ FigCarregar
    \/ FigColunas
    \/ FigMakedirs
    \/ FigTemporais
    \/ FigBoxplot
    \/ FigCorrelacao
    \/ FigOutliers
    \/ FigPca
    \/ FigRelatorio

SpecFiguras == InitFig /\ [][NextFig]_vars

\* The script is run again on the same input: a new process, the same files.
Reexecutar ==
    /\ pc \in {"fim", "saiu"}
    /\ execucao < MaxExecucoes
    /\ execucao' = execucao + 1
    /\ antes' = DOMAIN arquivos
    /\ pc' = "carregar"
    /\ df' = <<>>
    /\ stdout' = <<>>
    /\ chamados' = <<>>
    /\ rotulos' = <<>>
    /\ UNCHANGED << Entrada, dir_graficos, arquivos, ambiente >>
    /\ UNCHANGED FigVars

NextReexecucao == NextFig \/ Reexecutar

InitReexecucao == InitFig /\ Len(linhas) <= MaxLinhasReexecucao

SpecReexecucao == InitReexecucao /\ [][NextReexecucao]_vars

(***************************************************************************)
(* Properties of gerar_figuras.py                                          *)
(***************************************************************************)
PosRenderizadores == {Renderizadores[i] : i \in 1..Len(Renderizadores)}

Carregavel == arquivo /\ {"Data", "Hora"} \subseteq cabecalho /\ data_ok

Falhou(r) == r \in DOMAIN ambiente /\ ~Sucesso(r, ambiente[r])

\* C1: when one of UmidadeAr, Temp, USolo is missing from the table, no
\* renderer is ever invoked and no image file is ever written, and the script
\* that loaded the table exits having printed only the error that names a
\* missing column.
C1_MissingColumnStopsBeforeRendering ==
    (arquivo /\ Nucleo \ cabecalho # {}) =>
        /\ pc \in {"carregar", "colunas", "saiu"}
        /\ chamados = <<>>
        /\ DOMAIN arquivos = {}
        /\ (pc = "saiu" /\ Carregavel) =>
               /\ Len(stdout) = 1
               /\ stdout[1].msg = "Erro: Coluna nao encontrada"
               /\ stdout[1].arg \in Nucleo \ cabecalho

C1_Witness ==
    /\ pc = "saiu"
    /\ Carregavel
    /\ "USolo" \notin cabecalho
    /\ stdout = <<Mensagem("Erro: Coluna nao encontrada", "USolo")>>

\* The script's next statement can execute: a renderer's call has an outcome
\* for it (the one a previous run recorded, when there was one).
PodeContinuar ==
    \/ pc \in {"carregar", "colunas", "makedirs", "relatorio"}
    \/ /\ pc \in PosRenderizadores
       /\ \E o \in Resultados(pc, df) : pc \in DOMAIN ambiente => o = ambiente[pc]

\* C2: in a run that passes validation the five renderers are invoked in the
\* fixed order whatever subset of them raises: the script leaves early only at
\* validation, a renderer that raised has its message printed, and the script
\* can always take its next step until it has finished.
C2_EveryRendererInvoked ==
    /\ pc = "saiu" => chamados = <<>>
    /\ pc \in {"relatorio", "fim"} => chamados = Renderizadores
    /\ pc \in PosRenderizadores =>
           /\ Len(chamados) < Len(Renderizadores)
           /\ chamados = SubSeq(Renderizadores, 1, Len(chamados))
           /\ pc = Renderizadores[Len(chamados) + 1]
    /\ \A i \in 1..Len(chamados) :
           Falhou(chamados[i]) =>
               \E j \in 1..Len(stdout) :
                   stdout[j] = Mensagem(ErroDe(chamados[i]), chamados[i])
    /\ pc \notin {"fim", "saiu"} => PodeContinuar

C2_Witness ==
    /\ pc = "fim"
    /\ chamados = Renderizadores
    /\ \A i \in 1..Len(Renderizadores) : Falhou(Renderizadores[i])

\* C6: whenever plot_outliers computes its labels, row i is labelled Outlier
\* exactly when its UmidadeAr value is a number below Q1 - 1.5*IQR or above
\* Q3 + 1.5*IQR of that column, and Normal otherwise (a missing value too).
C6_OutlierIffOutsideFences ==
    rotulos # <<>> =>
        LET col == df.celulas["UmidadeAr"]
            Q1  == Quantile(col, 1)
            Q3  == Quantile(col, 3)
            IQR == RSub(Q3, Q1)
            lo  == RSub(Q1, RMul(Num(3, 2), IQR))
            hi  == RAdd(Q3, RMul(Num(3, 2), IQR))
        IN  /\ Len(rotulos) = Len(col)
            /\ \A i \in 1..Len(col) :
                   rotulos[i] =
                       IF col[i].k = "num" /\ (RLess(col[i], lo) \/ RLess(hi, col[i]))
                       THEN "Outlier" ELSE "Normal"

C6_Witness ==
    /\ rotulos # <<>>
    /\ \E i \in 1..Len(rotulos) : rotulos[i] = "Outlier"
    /\ \E i \in 1..Len(rotulos) : rotulos[i] = "Normal"

\* C8: every renderer is handed the cleaned table: when a renderer is about
\* to be invoked, no cell of UmidadeAr, Temp or USolo in the table is text.
C8_RenderersSeeCoercedTable ==
    pc \in PosRenderizadores =>
        \A c \in DOMAIN df.celulas :
            \A i \in 1..Len(df.celulas[c]) : df.celulas[c][i].k # "str"

NomesFixos ==
    { "graficos/temporal_combinado.png", "graficos/temporal_umidadear.png",
      "graficos/temporal_temp.png", "graficos/temporal_usolo.png",
      "graficos/boxplot_variaveis.png", "graficos/matriz_correlacao.png",
      "graficos/outliers_umidade.png", "graficos/pca_ambiental.png" }

\* The files each renderer is to leave behind.
ArquivosDe(r) ==
    CASE r = "temporais"  -> { "graficos/temporal_combinado.png",
                               "graficos/temporal_umidadear.png",
                               "graficos/temporal_temp.png",
                               "graficos/temporal_usolo.png" }
      [] r = "boxplot"    -> { "graficos/boxplot_variaveis.png" }
      [] r = "correlacao" -> { "graficos/matriz_correlacao.png" }
      [] r = "outliers"   -> { "graficos/outliers_umidade.png" }
      [] r = "pca"        -> { "graficos/pca_ambiental.png" }

\* C9: graficos/ exists before any renderer runs, only the eight fixed names
\* are ever written, a renderer that succeeds leaves its file written by the
\* current run, and when a second (or later) run on the unchanged input
\* ends, the file names are those the previous run left, each file written
\* anew by this run.
C9_SameFilesAfterRerun ==
    /\ pc \in PosRenderizadores \cup {"relatorio", "fim"} => dir_graficos
    /\ DOMAIN arquivos # {} => dir_graficos
    /\ DOMAIN arquivos \subseteq NomesFixos
    /\ \A i \in 1..Len(chamados) :
           ~Falhou(chamados[i]) =>
               \A f \in ArquivosDe(chamados[i]) :
                   f \in DOMAIN arquivos /\ arquivos[f] = execucao
    /\ (execucao > 1 /\ pc = "fim") =>
           /\ DOMAIN arquivos = antes
           /\ \A f \in DOMAIN arquivos : arquivos[f] = execucao

C9_Witness ==
    /\ execucao = 2
    /\ pc = "fim"
    /\ DOMAIN arquivos = NomesFixos
    /\ \A f \in NomesFixos : arquivos[f] = 2

Relatorio ==
    << Mensagem("Processamento concluido", "graficos/"),
       Mensagem("Arquivos gerados:", ""),
       Mensagem("-", "temporal_combinado.png"),
       Mensagem("-", "temporal_umidadear.png"),
       Mensagem("-", "temporal_temp.png"),
       Mensagem("-", "temporal_usolo.png"),
       Mensagem("-", "boxplot_variaveis.png"),
       Mensagem("-", "matriz_correlacao.png"),
       Mensagem("-", "outliers_umidade.png"),
       Mensagem("-", "pca_ambiental.png") >>

TemporaisEsperados(k) ==
    CASE k = 0 -> { "graficos/temporal_umidadear.png", "graficos/temporal_temp.png",
                    "graficos/temporal_usolo.png", "graficos/temporal_combinado.png" }
      [] k = 1 -> {}
      [] k = 2 -> { "graficos/temporal_umidadear.png" }
      [] k = 3 -> { "graficos/temporal_umidadear.png", "graficos/temporal_temp.png" }
      [] k = 4 -> { "graficos/temporal_umidadear.png", "graficos/temporal_temp.png",
                    "graficos/temporal_usolo.png" }

NomesTemporais ==
    { "graficos/temporal_combinado.png", "graficos/temporal_umidadear.png",
      "graficos/temporal_temp.png", "graficos/temporal_usolo.png" }

\* C10: a run that passes validation ends with the completion message and
\* the full list of eight names printed, whichever renderers failed; and once
\* the time-series renderer has failed at its k-th variable, exactly the
\* individual images of the variables before it exist, and not
\* temporal_combinado.png.
C10_ReportListsAllFiles ==
    /\ pc = "fim" =>
           /\ Len(stdout) >= Len(Relatorio)
           /\ SubSeq(stdout, Len(stdout) - Len(Relatorio) + 1, Len(stdout)) = Relatorio
    /\ "temporais" \in DOMAIN ambiente =>
           DOMAIN arquivos \cap NomesTemporais =
               TemporaisEsperados(ambiente["temporais"])

C10_Witness ==
    /\ pc = "fim"
    /\ ambiente["temporais"] = 2
    /\ \E i \in 1..Len(stdout) : stdout[i] = Mensagem("-", "temporal_combinado.png")
    /\ "graficos/temporal_combinado.png" \notin DOMAIN arquivos
    /\ "graficos/temporal_umidadear.png" \in DOMAIN arquivos

(***************************************************************************)
(* Properties of estatistica.py                                            *)
(***************************************************************************)
ComResultado == pc \in {"print", "to_csv", "fim"}

Coluna(v) == df_numeric.celulas[v]

\* C3: a variable whose mean is zero or missing has all four percentage
\* metrics reported as missing (so neither an infinity nor a number), and the
\* script fails only for a missing file or a missing column.
C3_ZeroMeanPercentagesMissing ==
    /\ ComResultado =>
           \A v \in DOMAIN df_resultado :
               LET m == Mean(Coluna(v))
               IN  (IsNaN(m) \/ m.n = 0) =>
                       \A s \in Percentuais : df_resultado[v][s] = NaN
    /\ pc = "erro" => (~arquivo \/ Nucleo \ cabecalho # {})

C3_Witness ==
    /\ pc = "fim"
    /\ \E v \in DOMAIN df_resultado :
           /\ Mean(Coluna(v)) = Num(0, 1)
           /\ Max(Coluna(v)) # Min(Coluna(v))
           /\ \A s \in Percentuais : df_resultado[v][s] = NaN

CenarioDuasLinhas == linhas = <<L1, L2>>

\* C4 as stated: for the rows Temp=20 and Temp=30 the report for Temp holds
\* the mean 25, the minimum 20, the maximum 30, the range 10, the range % 40,
\* the median 25 and the median % 100.
C4_ReportsMeanMinMaxRange ==
    (ComResultado /\ CenarioDuasLinhas) =>
        \A x \in {Num(25, 1), Num(20, 1), Num(30, 1), Num(10, 1), Num(40, 1),
                  Num(100, 1)} :
            \E s \in DOMAIN df_resultado["Temp"] : df_resultado["Temp"][s] = x

\* C4 amended: for the rows Temp=20 and Temp=30 the script computes mean 25,
\* min 20, max 30 and range 10, and reports for Temp exactly five statistics:
\* range % 40, standard deviation % 28.28, variance % 200, median 25 and
\* median % 100; the table is what is printed and what is saved.
C4_ReportsFivePercentStatistics ==
    (ComResultado /\ CenarioDuasLinhas) =>
        /\ Mean(Coluna("Temp")) = Num(25, 1)
        /\ Min(Coluna("Temp")) = Num(20, 1)
        /\ Max(Coluna("Temp")) = Num(30, 1)
        /\ FSub(Max(Coluna("Temp")), Min(Coluna("Temp"))) = Num(10, 1)
        /\ DOMAIN df_resultado["Temp"] = Estatisticas
        /\ df_resultado["Temp"]["Intervalo (%)"] = Num(40, 1)
        /\ df_resultado["Temp"]["Desvio Padrao (%)"] = Num(2828, 100)
        /\ df_resultado["Temp"]["Variancia (%)"] = Num(200, 1)
        /\ df_resultado["Temp"]["Mediana (valor)"] = Num(25, 1)
        /\ df_resultado["Temp"]["Mediana (%)"] = Num(100, 1)
        /\ pc \in {"to_csv", "fim"} => stdout[2].arg = df_resultado
        /\ pc = "fim" => csv_saida = df_resultado

C4_Witness ==
    /\ pc = "fim"
    /\ CenarioDuasLinhas
    /\ df_resultado["Temp"]["Mediana (valor)"] = Num(25, 1)

\* r is the multiple of 1/100 nearest to the number exact (or both are NaN).
Arredonda(r, exact) ==
    IF IsNaN(exact) THEN r = NaN
    ELSE /\ r.k = "num"
         /\ 100 % r.d = 0
         /\ 2 * Abs(r.n * (100 \div r.d) * exact.d - exact.n * 100) <= exact.d

\* <<floor(n * 100^k / d), the remainder>>, for n >= 0 and d > 0
RECURSIVE Escala(_, _, _)
Escala(n, d, k) ==
    IF k = 0 THEN <<n \div d, n % d>>
    ELSE LET p == Escala(n, d, k - 1)
         IN  <<p[1] * 100 + (p[2] * 100) \div d, (p[2] * 100) % d>>

\* r is a multiple of 1/100 with the sign sg and, when the root is below 2
\* (the squares then fit the integers), the one nearest to sg * 100 * sqrt(u).
ArredondaRaiz(r, u, sg) ==
    /\ r.k = "num"
    /\ 100 % r.d = 0
    /\ r.n = 0 \/ Sgn(r.n) = sg
    /\ (4 * u.n) \div u.d < 16 =>
           LET h == Abs(r.n) * (100 \div r.d)
               w == Escala(4 * u.n, u.d, 4)[1]
           IN  /\ h = 0 \/ (2 * h - 1) * (2 * h - 1) <= w
               /\ w < (2 * h + 1) * (2 * h + 1)

\* (x / m) * 100, exactly
Pct(x, m) == IF IsNaN(x) THEN NaN ELSE RMul(RDiv(x, m), Num(100, 1))

\* C5: every reported value has two decimals; the median is the column's
\* median rounded; and for a variable with a non-zero mean the range %,
\* variance % and median % are (x / mean) * 100 rounded to the nearest
\* hundredth, and the standard deviation % is the hundredth nearest to
\* (sqrt(variance) / mean) * 100 (missing when there are fewer than 2 values).
C5_PercentagesRoundedToTwoDecimals ==
    ComResultado =>
        \A v \in DOMAIN df_resultado :
            LET col == Coluna(v)
                m   == Mean(col)
                rep == df_resultado[v]
            IN  /\ Arredonda(rep["Mediana (valor)"], Median(col))
                /\ (IsNum(m) /\ m.n # 0) =>
                       /\ Arredonda(rep["Intervalo (%)"],
                                    Pct(FSub(Max(col), Min(col)), m))
                       /\ Arredonda(rep["Variancia (%)"], Pct(Var(col), m))
                       /\ Arredonda(rep["Mediana (%)"], Pct(Median(col), m))
                       /\ IF IsNaN(Var(col))
                          THEN rep["Desvio Padrao (%)"] = NaN
                          ELSE ArredondaRaiz(rep["Desvio Padrao (%)"],
                                             RDiv(RDiv(Var(col), m), m),
                                             Sgn(m.n))

C5_Witness ==
    /\ pc = "fim"
    /\ \E v \in DOMAIN df_resultado :
           LET col == Coluna(v)
               m   == Mean(col)
           IN  /\ IsNum(m) /\ m.n # 0
               /\ IsNum(Var(col))
               /\ df_resultado[v]["Intervalo (%)"] # Pct(FSub(Max(col), Min(col)), m)
               /\ df_resultado[v]["Mediana (valor)"] # Median(col)
               /\ df_resultado[v]["Desvio Padrao (%)"].n # 0

\* The value each cell text of the input rows stands for.
ValorDe(token) ==
    CASE token = <<"2", "0">> -> Num(20, 1)
      [] token = <<"3", "0">> -> Num(30, 1)
      [] token = <<"5", "0">> -> Num(50, 1)
      [] token = <<"7", "0">> -> Num(70, 1)
      [] token = <<"1", "0", "0">> -> Num(100, 1)
      [] token = <<"-", "3", "0">> -> Num(-30, 1)
      [] token = <<"-", "5", "0">> -> Num(-50, 1)
      [] token = <<"2", "0", ".", "1", "2", "5">> -> Num(161, 8)
      [] OTHER -> NaN

\* C7: the coerced table is a fixed point of the coercion; every cell of it
\* is a number or missing; a cell that spells a number holds that number and
\* any other cell (SIM, NAO, empty) is missing; and coercion never fails.
C7_CoercionIdempotentTotal ==
    /\ pc \in {"loop", "resultado", "print", "to_csv", "fim"} =>
           /\ ApplyToNumeric(df_numeric) = df_numeric
           /\ \A c \in DOMAIN df_numeric.celulas :
                  /\ Len(df_numeric.celulas[c]) = Len(linhas)
                  /\ \A i \in 1..Len(linhas) :
                         /\ df_numeric.celulas[c][i].k \in {"num", "nan"}
                         /\ df_numeric.celulas[c][i] = ValorDe(linhas[i][c])
    /\ pc = "erro" => (~arquivo \/ Nucleo \ cabecalho # {})

C7_Witness ==
    /\ pc = "fim"
    /\ Len(linhas) > 1
    /\ \A i \in 1..Len(linhas) : linhas[i]["Temp"] = <<"S", "I", "M">>
    /\ \A i \in 1..Len(linhas) : df.celulas["Temp"][i].k = "str"
    /\ \A i \in 1..Len(linhas) : df_numeric.celulas["Temp"][i] = NaN

====
